---- MODULE Spec2Model ----
(***************************************************************************)
(* Model of tf_agents/agents/tf_agent.py: the TFAgent base class, its      *)
(* constructor and the validating train() wrapper around the abstract      *)
(* _train hook.                                                            *)
(***************************************************************************)
EXTENDS Integers, Sequences, FiniteSets, TLC

(* ---------------------------- bounds ---------------------------------- *)
\* largest number of leaves (tensors) in an experience structure
MaxLeaves == 2
\* largest rank of an experience tensor
MaxRank == 3
\* number of train() calls made on one agent
MaxCalls == 2

(* ---------------------------- values ---------------------------------- *)
\* Python None for an optional integer; an integer L is the 1-tuple <<L>>.
None == <<>>

Some(v) == <<v>>

BatchDims == {4}

DimVals == {2, 3}

SeqsUpTo(S, n) == UNION {[1..k -> S] : k \in 0..n}

\* static shapes [B, T, F...] of rank 0..MaxRank
Shapes ==
  {s \in SeqsUpTo(BatchDims \cup DimVals, MaxRank) :
     \A i \in 1..Len(s) : IF i = 1 THEN s[i] \in BatchDims ELSE s[i] \in DimVals}

\* flattened nests of tensors, each tensor given by its shape
Nests == UNION {[1..k -> Shapes] : k \in 1..MaxLeaves}

\* type(experience): a Trajectory namedtuple, or something else
ExperienceTypes == {"Trajectory", "dict"}

Experiences ==
  {[type |-> "Trajectory", tensors |-> n] : n \in Nests}
    \cup {[type |-> "dict", tensors |-> n] : n \in {<< <<4, 2>> >>}}

\* trajectory_spec of a policy: a flattened nest of per-leaf feature shapes
CollectSpecs == { << <<>> >>, << <<2>>, <<>> >> }

Policies == {[trajectory_spec |-> s] : s \in CollectSpecs}

GreedyPolicy == [trajectory_spec |-> << <<>> >>]

TrainSequenceLengths == {None, Some(2), Some(3)}

WeightsArgs == {"None", "weights"}

CounterArgs == {"None", "global_step"}

\* members of the concrete subclass' class __dict__
Subclasses ==
  { {"_initialize", "_train"},
    {"_initialize", "_train", "train"},
    {"_initialize", "_train", "collect_data_spec"} }

\* non-underscore members of TFAgent.__dict__
PublicMembers ==
  {"initialize", "train", "time_step_spec", "action_spec", "policy",
   "collect_policy", "collect_data_spec", "train_sequence_length",
   "debug_summaries", "summarize_grads_and_vars"}

FieldNames ==
  {"_time_step_spec", "_action_spec", "_policy", "_collect_policy",
   "_train_sequence_length", "_debug_summaries", "_summarize_grads_and_vars"}

\* LossInfo = collections.namedtuple("LossInfo", ("loss", "extra"))
LossInfo(loss, extra) == [type |-> "LossInfo", loss |-> loss, extra |-> extra]

\* values the _train hook of some subclass may return
HookReturns ==
  {LossInfo(1, "extra_a"), LossInfo(2, "extra_b"),
   [type |-> "float", loss |-> 1, extra |-> "n/a"],
   [type |-> "tuple", loss |-> 1, extra |-> "extra_a"]}

\* isinstance(loss_info, LossInfo)
IsLossInfo(v) == v.type = "LossInfo"

\* isinstance(experience, trajectory.Trajectory)
IsTrajectory(e) == e.type = "Trajectory"

(* ---------------------------- state ----------------------------------- *)
VARIABLES
  subclass,     \* members defined by the concrete subclass
  ctor,         \* "new", "constructed" or "failed"
  ctor_error,   \* error raised by the constructor, "" if none
  self,         \* the instance __dict__: assigned field |-> value
  writes,       \* number of assignments made to each field
  pc,           \* position inside train()
  calls,        \* train() calls started
  args,         \* arguments of the current train() call
  steps,        \* steps of train() executed in the current call
  hook_calls,   \* _train invocations in the current call
  hook_args,    \* arguments _train received in the current call
  hook_inc,     \* increment of the counter made by _train in the current call
  loss_info,    \* value returned by _train in the current call
  result,       \* value returned by train()
  error,        \* exception raised out of train()
  global_step,  \* the externally owned train step counter
  hook_incs,    \* increments of global_step performed inside _train
  params,       \* hook-owned parameter version
  at_call       \* global_step and params when the current call started

vars ==
  <<subclass, ctor, ctor_error, self, writes, pc, calls, args, steps,
    hook_calls, hook_args, hook_inc, loss_info, result, error, global_step,
    hook_incs, params, at_call>>

agent_vars == <<subclass, ctor, ctor_error, self, writes>>

hook_state == <<global_step, hook_incs, params>>

NoArgs == [experience |-> [type |-> "dict", tensors |-> << <<4, 2>> >>],
           weights |-> "None", train_step_counter |-> "None"]

NoError ==
  [kind |-> "", stage |-> "", saw |-> "", actual |-> <<>>, expected |-> <<>>,
   found |-> None, required |-> None, value |-> <<>>]

(* ----------------------- properties (descriptors) --------------------- *)
collect_policy == self["_collect_policy"]

\* collect_data_spec = self.collect_policy.trajectory_spec
collect_data_spec == collect_policy.trajectory_spec

train_sequence_length == self["_train_sequence_length"]

(* --------------------------- helpers ---------------------------------- *)
\* tf.nest.map_structure(lambda tp: tp.shape, experience)
ExperienceShapes(e) == [i \in 1..Len(e.tensors) |-> e.tensors[i]]

\* tf.nest.map_structure(lambda spec: spec.shape, self.collect_data_spec)
SpecShapes(spec) == [i \in 1..Len(spec) |-> spec[i]]

Drop(s, n) == [i \in 1..(Len(s) - n) |-> s[i + n]]

\* nest_utils.is_batched_nested_tensors(tensors, specs, num_outer_dims)
is_batched_nested_tensors(tensors, specs, num_outer_dims) ==
  /\ Len(tensors) = Len(specs)
  /\ \A i \in 1..Len(tensors) :
       /\ Len(tensors[i]) = Len(specs[i]) + num_outer_dims
       /\ Drop(tensors[i], num_outer_dims) = specs[i]

\* common.assert_members_are_not_overridden(base_cls=TFAgent, instance=self)
OverriddenMembers(cls) == cls \cap PublicMembers

\* check_shape comparing axis 0 (batch) instead of axis 1 (time)
BadTimeLeaves_axis0(e, L) == {i \in 1..Len(e.tensors) : e.tensors[i][1] # L}

\* leaves on which check_shape raises: t.shape[1] != train_sequence_length
BadTimeLeaves(e, L) == {i \in 1..Len(e.tensors) : e.tensors[i][2] # L}

\* map_structure visits the leaves in order: the first raising leaf
FirstBadLeaf(e, L) ==
  CHOOSE i \in BadTimeLeaves(e, L) : \A j \in BadTimeLeaves(e, L) : i <= j

(* ----------------------------- Init ----------------------------------- *)
Init ==
  /\ subclass \in Subclasses
  /\ ctor = "new"
  /\ ctor_error = ""
  /\ self = <<>>
  /\ writes = [f \in FieldNames |-> 0]
  /\ pc = "idle"
  /\ calls = 0
  /\ args = NoArgs
  /\ steps = <<>>
  /\ hook_calls = 0
  /\ hook_args = <<>>
  /\ hook_inc = 0
  /\ loss_info = <<>>
  /\ result = <<>>
  /\ error = NoError
  /\ global_step = 0
  /\ hook_incs = 0
  /\ params = 0
  /\ at_call = [global_step |-> 0, params |-> 0]

(* --------------------------- __init__ --------------------------------- *)
AssignFields(time_step_spec, action_spec, policy, collect_pol, tsl, dbg, sgv) ==
  /\ self' = [_time_step_spec |-> time_step_spec,
              _action_spec |-> action_spec,
              _policy |-> policy,
              _collect_policy |-> collect_pol,
              _train_sequence_length |-> tsl,
              _debug_summaries |-> dbg,
              _summarize_grads_and_vars |-> sgv]
  /\ writes' = [f \in FieldNames |-> writes[f] + 1]

\* the constructor assigning the fields before the override check
Construct_assign_first ==
  /\ ctor = "new"
  /\ \E collect_pol \in Policies, tsl \in TrainSequenceLengths :
       /\ AssignFields("time_step_spec", "action_spec", GreedyPolicy,
                       collect_pol, tsl, FALSE, FALSE)
       /\ IF OverriddenMembers(subclass) # {}
          THEN /\ ctor' = "failed"
               /\ ctor_error' = "ConfigurationError"
          ELSE /\ ctor' = "constructed"
               /\ ctor_error' = ""
  /\ UNCHANGED <<subclass, pc, calls, args, steps, hook_calls, hook_args,
                 hook_inc, loss_info, result, error, global_step, hook_incs,
                 params, at_call>>

Construct ==
  /\ ctor = "new"
  /\ \E collect_pol \in Policies, tsl \in TrainSequenceLengths :
       IF OverriddenMembers(subclass) # {}
       THEN /\ ctor' = "failed"
            /\ ctor_error' = "ConfigurationError"
            /\ UNCHANGED <<self, writes>>
       ELSE /\ AssignFields("time_step_spec", "action_spec", GreedyPolicy,
                            collect_pol, tsl, FALSE, FALSE)
            /\ ctor' = "constructed"
            /\ ctor_error' = ""
  /\ UNCHANGED <<subclass, pc, calls, args, steps, hook_calls, hook_args,
                 hook_inc, loss_info, result, error, global_step, hook_incs, params,
                 at_call>>

(* ----------------------------- train ---------------------------------- *)
Raise(e) ==
  /\ pc' = "raised"
  /\ error' = e

\* the caller enters train(experience, weights, train_step_counter)
Train ==
  /\ ctor = "constructed"
  /\ pc = "idle"
  /\ calls < MaxCalls
  /\ \E e \in Experiences, w \in WeightsArgs, c \in CounterArgs :
       args' = [experience |-> e, weights |-> w, train_step_counter |-> c]
  /\ calls' = calls + 1
  /\ pc' = "type_check"
  /\ steps' = <<>>
  /\ hook_calls' = 0
  /\ hook_args' = <<>>
  /\ hook_inc' = 0
  /\ loss_info' = <<>>
  /\ result' = <<>>
  /\ error' = NoError
  /\ at_call' = [global_step |-> global_step, params |-> params]
  /\ UNCHANGED <<agent_vars, hook_state>>

\* train() without the isinstance check
CheckExperienceType_missing ==
  /\ pc = "type_check"
  /\ steps' = Append(steps, "type_check")
  /\ pc' = "outer_dims"
  /\ UNCHANGED <<agent_vars, hook_state, calls, args, hook_calls, hook_args,
                 hook_inc, loss_info, result, error, at_call>>

\* if not isinstance(experience, trajectory.Trajectory): raise ValueError
CheckExperienceType ==
  /\ pc = "type_check"
  /\ steps' = Append(steps, "type_check")
  /\ IF ~IsTrajectory(args.experience)
     THEN Raise([NoError EXCEPT !.kind = "ValueError", !.stage = "type_check",
                                !.saw = args.experience.type])
     ELSE /\ pc' = "outer_dims"
          /\ UNCHANGED error
  /\ UNCHANGED <<agent_vars, hook_state, calls, args, hook_calls, hook_args,
                 hook_inc, loss_info, result, at_call>>

\* the outer-dimension error formatted with the experience shapes only
CheckOuterDims_no_expected ==
  /\ pc = "outer_dims"
  /\ steps' = Append(steps, "outer_dims")
  /\ IF ~is_batched_nested_tensors(args.experience.tensors, collect_data_spec, 2)
     THEN Raise([NoError EXCEPT !.kind = "ValueError", !.stage = "outer_dims",
                                !.actual = ExperienceShapes(args.experience),
                                !.expected = ExperienceShapes(args.experience)])
     ELSE /\ pc' = "fixed_length"
          /\ UNCHANGED error
  /\ UNCHANGED <<agent_vars, hook_state, calls, args, hook_calls, hook_args,
                 hook_inc, loss_info, result, at_call>>

\* if not is_batched_nested_tensors(experience, collect_data_spec, 2): raise
CheckOuterDims ==
  /\ pc = "outer_dims"
  /\ steps' = Append(steps, "outer_dims")
  /\ IF ~is_batched_nested_tensors(args.experience.tensors, collect_data_spec, 2)
     THEN Raise([NoError EXCEPT !.kind = "ValueError", !.stage = "outer_dims",
                                !.actual = ExperienceShapes(args.experience),
                                !.expected = SpecShapes(collect_data_spec)])
     ELSE /\ pc' = "fixed_length"
          /\ UNCHANGED error
  /\ UNCHANGED <<agent_vars, hook_state, calls, args, hook_calls, hook_args,
                 hook_inc, loss_info, result, at_call>>

\* the fixed-length check falling back to 2 time steps when the length is None
CheckFixedLength_default2 ==
  /\ pc = "fixed_length"
  /\ steps' = Append(steps, "fixed_length")
  /\ LET L == IF train_sequence_length # None
              THEN train_sequence_length[1] ELSE 2
     IN IF BadTimeLeaves(args.experience, L) # {}
        THEN Raise([NoError EXCEPT
               !.kind = "ValueError", !.stage = "fixed_length",
               !.found = Some(args.experience.tensors[
                  FirstBadLeaf(args.experience, L)][2]),
               !.required = Some(L),
               !.actual = ExperienceShapes(args.experience)])
        ELSE /\ pc' = "hook"
             /\ UNCHANGED error
  /\ UNCHANGED <<agent_vars, hook_state, calls, args, hook_calls, hook_args,
                 hook_inc, loss_info, result, at_call>>

\* if self.train_sequence_length is not None: map_structure(check_shape, ...)
CheckFixedLength ==
  /\ pc = "fixed_length"
  /\ IF train_sequence_length # None
     THEN /\ steps' = Append(steps, "fixed_length")
          /\ IF BadTimeLeaves(args.experience, train_sequence_length[1]) # {}
             THEN Raise([NoError EXCEPT
                    !.kind = "ValueError", !.stage = "fixed_length",
                    !.found = Some(args.experience.tensors[
                       FirstBadLeaf(args.experience,
                                    train_sequence_length[1])][2]),
                    !.required = Some(train_sequence_length[1]),
                    !.actual = ExperienceShapes(args.experience)])
             ELSE /\ pc' = "hook"
                  /\ UNCHANGED error
     ELSE /\ pc' = "hook"
          /\ UNCHANGED <<steps, error>>
  /\ UNCHANGED <<agent_vars, hook_state, calls, args, hook_calls, hook_args,
                 hook_inc, loss_info, result, at_call>>

\* train() calling the hook without forwarding the weights
CallTrainHook_drop_weights ==
  /\ pc = "hook"
  /\ steps' = Append(steps, "hook")
  /\ hook_calls' = hook_calls + 1
  /\ hook_args' = Append(hook_args, [args EXCEPT !.weights = "None"])
  /\ params' = params + 1
  /\ \E inc \in (IF args.train_step_counter = "None" THEN {0} ELSE {0, 1}) :
       /\ global_step' = global_step + inc
       /\ hook_incs' = hook_incs + inc
       /\ hook_inc' = inc
  /\ \/ \E v \in HookReturns :
          /\ loss_info' = <<v>>
          /\ pc' = "result_check"
          /\ UNCHANGED error
     \/ /\ Raise([NoError EXCEPT !.kind = "HookError", !.stage = "hook"])
        /\ UNCHANGED loss_info
  /\ UNCHANGED <<agent_vars, calls, args, result, at_call>>

\* loss_info = self._train(experience=..., weights=..., train_step_counter=...)
\* The hook is subclass code: it returns any value or raises, updates the
\* parameters, and may increment the counter it was given.
CallTrainHook ==
  /\ pc = "hook"
  /\ steps' = Append(steps, "hook")
  /\ hook_calls' = hook_calls + 1
  /\ hook_args' = Append(hook_args, args)
  /\ params' = params + 1
  /\ \E inc \in (IF args.train_step_counter = "None" THEN {0} ELSE {0, 1}) :
       /\ global_step' = global_step + inc
       /\ hook_incs' = hook_incs + inc
       /\ hook_inc' = inc
  /\ \/ \E v \in HookReturns :
          /\ loss_info' = <<v>>
          /\ pc' = "result_check"
          /\ UNCHANGED error
     \/ /\ Raise([NoError EXCEPT !.kind = "HookError", !.stage = "hook"])
        /\ UNCHANGED loss_info
  /\ UNCHANGED <<agent_vars, calls, args, result, at_call>>

\* train() returning only the loss of the hook's result
CheckLossInfo_loss_only ==
  /\ pc = "result_check"
  /\ steps' = Append(steps, "result_check")
  /\ IF ~IsLossInfo(loss_info[1])
     THEN /\ Raise([NoError EXCEPT !.kind = "TypeError",
                                   !.stage = "result_check",
                                   !.value = loss_info])
          /\ UNCHANGED result
     ELSE /\ pc' = "returned"
          /\ result' = <<LossInfo(loss_info[1].loss, "n/a")>>
          /\ UNCHANGED error
  /\ UNCHANGED <<agent_vars, hook_state, calls, args, hook_calls, hook_args,
                 hook_inc, loss_info, at_call>>

\* train() returning the hook's result without the isinstance check
CheckLossInfo_unchecked ==
  /\ pc = "result_check"
  /\ steps' = Append(steps, "result_check")
  /\ pc' = "returned"
  /\ result' = loss_info
  /\ UNCHANGED <<agent_vars, hook_state, calls, args, hook_calls, hook_args,
                 hook_inc, loss_info, error, at_call>>

\* train() undoing the hook's effects when the result check fails
CheckLossInfo_rollback ==
  /\ pc = "result_check"
  /\ steps' = Append(steps, "result_check")
  /\ IF ~IsLossInfo(loss_info[1])
     THEN /\ Raise([NoError EXCEPT !.kind = "TypeError",
                                   !.stage = "result_check",
                                   !.value = loss_info])
          /\ params' = at_call.params
          /\ global_step' = at_call.global_step
          /\ hook_incs' = hook_incs - hook_inc
          /\ UNCHANGED result
     ELSE /\ pc' = "returned"
          /\ result' = loss_info
          /\ UNCHANGED <<error, hook_state>>
  /\ UNCHANGED <<agent_vars, calls, args, hook_calls, hook_args,
                 hook_inc, loss_info, at_call>>

\* if not isinstance(loss_info, LossInfo): raise TypeError; return loss_info
CheckLossInfo ==
  /\ pc = "result_check"
  /\ steps' = Append(steps, "result_check")
  /\ IF ~IsLossInfo(loss_info[1])
     THEN /\ Raise([NoError EXCEPT !.kind = "TypeError",
                                   !.stage = "result_check",
                                   !.value = loss_info])
          /\ UNCHANGED result
     ELSE /\ pc' = "returned"
          /\ result' = loss_info
          /\ UNCHANGED error
  /\ UNCHANGED <<agent_vars, hook_state, calls, args, hook_calls, hook_args,
                 hook_inc, loss_info, at_call>>

\* train() has returned or raised: its frame is gone and control is back
\* with the caller, which keeps only the state that outlives the call
BackToCaller ==
  /\ pc \in {"returned", "raised"}
  /\ pc' = "idle"
  /\ args' = NoArgs
  /\ steps' = <<>>
  /\ hook_calls' = 0
  /\ hook_args' = <<>>
  /\ hook_inc' = 0
  /\ loss_info' = <<>>
  /\ result' = <<>>
  /\ error' = NoError
  /\ at_call' = [global_step |-> global_step, params |-> params]
  /\ UNCHANGED <<agent_vars, hook_state, calls>>

Next ==
  \/ Construct
  \/ Train
  \/ CheckExperienceType
  \/ CheckOuterDims
  \/ CheckFixedLength
  \/ CallTrainHook
  \/ CheckLossInfo
  \/ BackToCaller

Spec == Init /\ [][Next]_vars

(* ------------------------- checked properties ------------------------- *)
\* a train() call has run to its end: it returned or raised
Finished == ctor = "constructed" /\ pc \in {"returned", "raised"}

PassesOuterDims(e) ==
  is_batched_nested_tensors(e.tensors, collect_data_spec, 2)

PassesFixedLength(e) ==
  \/ train_sequence_length = None
  \/ BadTimeLeaves(e, train_sequence_length[1]) = {}

PassesAllChecks(e) ==
  IsTrajectory(e) /\ PassesOuterDims(e) /\ PassesFixedLength(e)

HookReturnedLossInfo == loss_info # <<>> /\ IsLossInfo(loss_info[1])

InputStages == {"type_check", "outer_dims", "fixed_length"}

StepOrder ==
  <<"type_check", "outer_dims", "fixed_length", "hook", "result_check">>

StepPos(st) == CHOOSE k \in 1..Len(StepOrder) : StepOrder[k] = st

\* the earliest input check the experience fails, "none" if it passes all
FirstFailingCheck(e) ==
  IF ~IsTrajectory(e) THEN "type_check"
  ELSE IF ~PassesOuterDims(e) THEN "outer_dims"
  ELSE IF ~PassesFixedLength(e) THEN "fixed_length"
  ELSE "none"

\* C1: a finished train() call whose experience is a Trajectory passing the
\* outer-dimension and the fixed-length check, and whose hook returned a
\* LossInfo, invoked the hook exactly once and returned exactly the value
\* the hook returned.
C1_ValidInputReturnsHookLossInfo ==
  (Finished /\ PassesAllChecks(args.experience) /\ HookReturnedLossInfo)
    => /\ pc = "returned"
       /\ hook_calls = 1
       /\ result = loss_info
       /\ error = NoError

C1_Witness ==
  /\ Finished
  /\ pc = "returned"
  /\ train_sequence_length = Some(2)
  /\ args.experience.tensors = << <<4, 2, 2>>, <<4, 2>> >>
  /\ result = <<LossInfo(1, "extra_a")>>

\* C2: a finished train() call whose experience is not a Trajectory raised
\* a TypeError and did not invoke the hook.
C2_NonTrajectoryRaisesTypeError ==
  (Finished /\ ~IsTrajectory(args.experience))
    => /\ pc = "raised"
       /\ error.kind = "TypeError"
       /\ hook_calls = 0

\* C3: a finished train() call whose Trajectory experience fails the
\* two-outer-dimensions check against collect_data_spec raised a
\* ValueError carrying the shape of every experience tensor and the
\* expected shape of every leaf of collect_data_spec.
C3_OuterDimsErrorCarriesShapes ==
  (Finished /\ IsTrajectory(args.experience)
     /\ ~PassesOuterDims(args.experience))
    => /\ pc = "raised"
       /\ error.kind = "ValueError"
       /\ Len(error.actual) = Len(args.experience.tensors)
       /\ \A i \in 1..Len(args.experience.tensors) :
            error.actual[i] = args.experience.tensors[i]
       /\ Len(error.expected) = Len(collect_data_spec)
       /\ \A i \in 1..Len(collect_data_spec) :
            error.expected[i] = collect_data_spec[i]

C3_Witness ==
  /\ Finished
  /\ pc = "raised"
  /\ error.stage = "outer_dims"
  /\ args.experience.tensors = << <<4, 2, 2>>, <<4>> >>
  /\ collect_data_spec = << <<2>>, <<>> >>

\* C4: with train_sequence_length a fixed L, a finished train() call whose
\* experience passed the type and outer-dimension checks but has a tensor
\* of time size T # L raised a ValueError naming a found time size T # L
\* of one of the tensors and the required value L.
C4_FixedLengthErrorNamesFoundAndRequired ==
  (Finished /\ IsTrajectory(args.experience)
     /\ PassesOuterDims(args.experience)
     /\ ~PassesFixedLength(args.experience))
    => /\ pc = "raised"
       /\ error.kind = "ValueError"
       /\ error.stage = "fixed_length"
       /\ error.required = train_sequence_length
       /\ error.found # error.required
       /\ \E i \in 1..Len(args.experience.tensors) :
            error.found = Some(args.experience.tensors[i][2])
       /\ hook_calls = 0

C4_Witness ==
  /\ Finished
  /\ pc = "raised"
  /\ train_sequence_length = Some(2)
  /\ args.experience.tensors = << <<4, 3>> >>
  /\ error.found = Some(3)
  /\ error.required = Some(2)

\* C5: with train_sequence_length None the fixed-length check is not
\* performed: every Trajectory experience passing the outer-dimension check
\* reaches the hook whatever its time sizes, and the call returns when the
\* hook returned a LossInfo.
C5_UnconstrainedLengthSkipsCheck ==
  (ctor = "constructed" /\ train_sequence_length = None)
    => /\ \A i \in 1..Len(steps) : steps[i] # "fixed_length"
       /\ error.stage # "fixed_length"
       /\ (Finished /\ IsTrajectory(args.experience)
             /\ PassesOuterDims(args.experience))
            => /\ hook_calls = 1
               /\ HookReturnedLossInfo => pc = "returned"

C5_Witness ==
  /\ Finished
  /\ pc = "returned"
  /\ train_sequence_length = None
  /\ args.experience.tensors = << <<4, 3, 2>>, <<4, 2>> >>

\* C6: a finished train() call whose hook returned a value that is not a
\* LossInfo raised a TypeError and returned nothing.
C6_NonLossInfoResultRaisesTypeError ==
  (Finished /\ loss_info # <<>> /\ ~IsLossInfo(loss_info[1]))
    => /\ pc = "raised"
       /\ error.kind = "TypeError"
       /\ error.stage = "result_check"
       /\ result = <<>>

C6_Witness ==
  /\ Finished
  /\ pc = "raised"
  /\ loss_info = <<[type |-> "tuple", loss |-> 1, extra |-> "extra_a"]>>
  /\ error.kind = "TypeError"

\* C7: constructing a subclass that overrides a non-underscore member fails
\* with a configuration error before any field is assigned; a construction
\* without such an override assigns each of the seven fields exactly once.
C7_OverrideCheckBeforeFields ==
  /\ OverriddenMembers(subclass) # {}
       => /\ ctor \in {"new", "failed"}
          /\ DOMAIN self = {}
          /\ \A f \in FieldNames : writes[f] = 0
          /\ ctor = "failed" => ctor_error = "ConfigurationError"
  /\ OverriddenMembers(subclass) = {}
       => /\ ctor \in {"new", "constructed"}
          /\ ctor_error = ""
          /\ ctor = "constructed"
               => /\ DOMAIN self = FieldNames
                  /\ \A f \in FieldNames : writes[f] = 1
          /\ ctor = "new"
               => /\ DOMAIN self = {}
                  /\ \A f \in FieldNames : writes[f] = 0

C7_Witness ==
  /\ ctor = "failed"
  /\ "train" \in subclass
  /\ ctor_error = "ConfigurationError"

\* C8: the hook receives experience, weights and train_step_counter exactly
\* as train() received them, and the counter only ever changes by the
\* increments made inside the hook: it equals the sum of the hook's
\* increments, and a call rejected by an input check leaves it unchanged.
C8_ArgumentsAndCounterPassedThrough ==
  /\ global_step = hook_incs
  /\ \A i \in 1..Len(hook_args) : hook_args[i] = args
  /\ global_step = at_call.global_step + hook_inc
  /\ (pc = "raised" /\ error.stage \in InputStages)
       => global_step = at_call.global_step

C8_Witness ==
  /\ Finished
  /\ calls = 2
  /\ global_step = 1
  /\ at_call.global_step = 1
  /\ pc = "raised"
  /\ error.stage = "outer_dims"
  /\ args.weights = "weights"
  /\ args.train_step_counter = "global_step"

\* C9: the steps of one train() call happen in the order type check,
\* outer-dimension check, fixed-length check, hook, result check; the hook
\* is invoked only for an experience passing all three input checks, and an
\* experience failing a check is rejected with the error of the earliest
\* check it fails.
C9_ChecksInOrderBeforeHook ==
  /\ \A i \in 1..Len(steps) : \A j \in 1..Len(steps) :
       i < j => StepPos(steps[i]) < StepPos(steps[j])
  /\ (ctor = "constructed" /\ hook_calls > 0)
       => PassesAllChecks(args.experience)
  /\ (Finished /\ FirstFailingCheck(args.experience) # "none")
       => /\ pc = "raised"
          /\ error.stage = FirstFailingCheck(args.experience)
          /\ hook_calls = 0

C9_Witness ==
  /\ Finished
  /\ pc = "raised"
  /\ error.stage = "type_check"
  /\ ~IsTrajectory(args.experience)
  /\ ~PassesOuterDims(args.experience)

\* C10: when train() fails on the result check the hook has run exactly
\* once in that call and its parameter update and counter increment are
\* still in place; when it fails on an input check the hook has not run
\* and the hook-owned state is as it was when the call started.
C10_HookEffectsPersistAfterResultError ==
  /\ (pc = "raised" /\ error.stage = "result_check")
       => /\ hook_calls = 1
          /\ params = at_call.params + 1
          /\ global_step = at_call.global_step + hook_inc
          /\ hook_incs = global_step
  /\ (pc = "raised" /\ error.stage \in InputStages)
       => /\ hook_calls = 0
          /\ params = at_call.params
          /\ global_step = at_call.global_step

C10_Witness ==
  /\ pc = "raised"
  /\ error.stage = "result_check"
  /\ hook_inc = 1
  /\ global_step = at_call.global_step + 1
  /\ params = at_call.params + 1

====
